---- MODULE Spec2Model ----
(***************************************************************************)
(* Model of the hierarchical ACL evaluator of src/src/lib.rs.              *)
(*                                                                         *)
(* A u64 access mask is represented by the set of positions of its set     *)
(* bits (a subset of 0..63), so that `&` is set intersection, `|` is set   *)
(* union and u64::max_value() is the full set.  Option<T> is represented   *)
(* by a sequence of length at most one.                                    *)
(***************************************************************************)
EXTENDS Integers, Sequences, FiniteSets, TLC

VARIABLES root, call, sd, chk

vars == <<root, call, sd, chk>>

(***************************************************************************)
(* Bounds                                                                  *)
(***************************************************************************)
MaxPathLen == 2
MaxAcl == 3

(***************************************************************************)
(* Values                                                                  *)
(***************************************************************************)
U64Bits == 64

None == <<>>
Some(x) == <<x>>

RECURSIVE BitsFrom(_, _)
BitsFrom(n, i) ==
    IF n = 0 THEN {}
    ELSE (IF n % 2 = 1 THEN {i} ELSE {}) \cup BitsFrom(n \div 2, i + 1)

\* the u64 with numeric value n
Bits(n) == BitsFrom(n, 0)

\* u64::max_value()
max_value == 0 .. (U64Bits - 1)

\* enum Effect
EffectAllow(next) == [kind |-> "Allow", next |-> next]
EffectDeny == [kind |-> "Deny"]
EffectNext(next) == [kind |-> "Next", next |-> next]

\* enum RuleSubject
User(login) == [kind |-> "User", name |-> login]
Group(group) == [kind |-> "Group", name |-> group]
Everyone == [kind |-> "Everyone"]

\* struct Entry
Entry(subject, effect) == [subject |-> subject, effect |-> effect]

\* struct AccessToken
AccessToken(name, groups) == [name |-> name, groups |-> groups]

\* enum CheckResult
Allow(acc) == [tag |-> "Allow", acc |-> acc]
Deny == [tag |-> "Deny"]
NoMatch == [tag |-> "NoMatch"]
NotFound == [tag |-> "NotFound"]

\* a panic of the thread running access(): unreachable!() or unwrap() on None
Panic(why) == [tag |-> "Panic", why |-> why]

\* no result yet
Pending == [tag |-> "Pending"]

(***************************************************************************)
(* SecurityDescriptor                                                      *)
(***************************************************************************)
SecurityDescriptor(acl) == [acl |-> acl]

with_capped_access(max_access) ==
    SecurityDescriptor(<<Entry(Everyone, EffectAllow(Some(max_access)))>>)

deny_all == SecurityDescriptor(<<Entry(Everyone, EffectDeny)>>)

allow_all == SecurityDescriptor(<<Entry(Everyone, EffectAllow(None))>>)

empty == SecurityDescriptor(<<>>)

add_entry(d, entry) == SecurityDescriptor(Append(d.acl, entry))

\* slice::contains
contains(s, x) == \E k \in DOMAIN s : s[k] = x

covers(subject, token) ==
    CASE subject.kind = "User" -> token.name = subject.name
      [] subject.kind = "Group" -> contains(token.groups, subject.name)
      [] subject.kind = "Everyone" -> TRUE

unwrap_or(opt, default) == IF opt = None THEN default ELSE opt[1]

\* a mutation of update_access: `|=` in place of `&=`
update_access_or(cur, next) == cur \cup unwrap_or(next, max_value)

\* a mutation of update_access: the step is dropped
update_access_skip(cur, next) == cur

update_access(cur, next) == cur \cap unwrap_or(next, max_value)

\* a mutation of the loop of check: a covering Deny does not return
RECURSIVE check_loop_deny_falls(_, _, _, _)
check_loop_deny_falls(acl, token, provided_access, k) ==
    IF k > Len(acl) THEN NoMatch
    ELSE LET entry == acl[k] IN
         IF ~covers(entry.subject, token)
         THEN check_loop_deny_falls(acl, token, provided_access, k + 1)
         ELSE CASE entry.effect.kind = "Allow" ->
                     Allow(update_access(provided_access, entry.effect.next))
                [] entry.effect.kind = "Deny" ->
                     check_loop_deny_falls(acl, token, provided_access, k + 1)
                [] entry.effect.kind = "Next" ->
                     check_loop_deny_falls(acl, token,
                         update_access(provided_access, entry.effect.next), k + 1)

\* the `for entry in &self.acl` loop of check, from entry k on
RECURSIVE check_loop(_, _, _, _)
check_loop(acl, token, provided_access, k) ==
    IF k > Len(acl) THEN NoMatch
    ELSE LET entry == acl[k] IN
         IF ~covers(entry.subject, token)
         THEN check_loop(acl, token, provided_access, k + 1)
         ELSE CASE entry.effect.kind = "Allow" ->
                     Allow(update_access(provided_access, entry.effect.next))
                [] entry.effect.kind = "Deny" -> Deny
                [] entry.effect.kind = "Next" ->
                     check_loop(acl, token,
                         update_access(provided_access, entry.effect.next), k + 1)

\* a mutation of check: an exhausted list reports NotFound
check_exhausted_not_found(d, token, requested_access) ==
    LET res == check_loop(d.acl, token, requested_access, 1)
    IN  IF res = NoMatch THEN NotFound ELSE res

check(d, token, requested_access) ==
    check_loop(d.acl, token, requested_access, 1)

(***************************************************************************)
(* Object, Item, Prefix                                                    *)
(***************************************************************************)
Object(security) == [kind |-> "Object", security |-> security]

\* HashMap::new()
NoItems == <<>>

Prefix_new == [kind |-> "Prefix", self_security |-> allow_all, items |-> NoItems]

with_security(sec) == [kind |-> "Prefix", self_security |-> sec, items |-> NoItems]

set_self_security(p, sec) == [p EXCEPT !.self_security = sec]

\* HashMap::insert: an existing binding of the name is replaced
add_item(p, name, item) ==
    [p EXCEPT !.items =
        [n \in (DOMAIN p.items) \cup {name} |->
            IF n = name THEN item ELSE p.items[n]]]

get_item(p, item_name) ==
    IF item_name \in DOMAIN p.items THEN Some(p.items[item_name]) ELSE None

\* ItemRef::as_object
as_object(item) == IF item.kind = "Object" THEN Some(item) ELSE None

SPECIAL_SEGMENT_SUDO == "$ACL.Sudo"

(***************************************************************************)
(* access(): the locals of one call, and the steps of its path walk        *)
(***************************************************************************)
Idle ==
    [pc |-> "idle", token |-> AccessToken("", <<>>), path |-> <<>>,
     requested_access |-> {}, seg |-> 0, cur_item |-> Prefix_new,
     cur_access |-> {}, result |-> Pending, log |-> <<>>]

\* lines 217-218: the state on entry to the loop
Enter(r, token, path, requested_access) ==
    [pc |-> "loop", token |-> token, path |-> path,
     requested_access |-> requested_access, seg |-> 1, cur_item |-> r,
     cur_access |-> requested_access, result |-> Pending, log |-> <<>>]

\* `return res`
Return(c, res) == [c EXCEPT !.pc = "done", !.result = res]

\* history of the descriptor evaluations and child lookups of the call
Logged(c, ev, mask, res) ==
    [c EXCEPT !.log = Append(c.log,
        [ev |-> ev, depth |-> c.seg, mask |-> mask, res |-> res.tag])]

\* a mutation of self_check_match: Deny and NoMatch do not return
self_check_match_ignore_deny(c, check_res) ==
    CASE check_res.tag = "Allow" ->
            [c EXCEPT !.cur_access = c.cur_access \cap check_res.acc,
                      !.pc = "sudo"]
      [] check_res.tag = "NotFound" -> Return(c, Panic("unreachable"))
      [] OTHER -> [c EXCEPT !.pc = "sudo"]

\* a mutation of self_check_match: the prefix's narrowing is not applied
self_check_match_no_narrow(c, check_res) ==
    CASE check_res.tag = "Allow" -> [c EXCEPT !.pc = "sudo"]
      [] check_res.tag = "Deny" -> Return(c, Deny)
      [] check_res.tag = "NotFound" -> Return(c, Panic("unreachable"))
      [] check_res.tag = "NoMatch" -> Return(c, NoMatch)

\* `match check_res` on the prefix's own descriptor
self_check_match(c, check_res) ==
    CASE check_res.tag = "Allow" ->
            [c EXCEPT !.cur_access = c.cur_access \cap check_res.acc,
                      !.pc = "sudo"]
      [] check_res.tag = "Deny" -> Return(c, Deny)
      [] check_res.tag = "NotFound" -> Return(c, Panic("unreachable"))
      [] check_res.tag = "NoMatch" -> Return(c, NoMatch)

\* loop body, first part: cur_item must be a prefix; its own descriptor
SelfCheckStep(c) ==
    IF c.cur_item.kind = "Object" THEN Return(c, NotFound)
    ELSE LET cur_prefix == c.cur_item
             check_res == check(cur_prefix.self_security, c.token, c.cur_access)
         IN  self_check_match(Logged(c, "self", c.cur_access, check_res),
                              check_res)

\* a mutation of sudo_requested_access: the narrowed mask is passed on
sudo_requested_access_cur(c) == c.cur_access

\* the mask handed to the sudo object's descriptor
sudo_requested_access(c) == Bits(0)

\* a mutation of sudo_check_match: the sudo descriptor's Deny is returned
sudo_check_match_deny(c, check_res) ==
    IF check_res.tag = "Allow" THEN Return(c, Allow(c.cur_access))
    ELSE IF check_res.tag = "Deny" THEN Return(c, Deny)
    ELSE [c EXCEPT !.pc = "lookup"]

\* a mutation of sudo_check_match: the walk goes on after a grant
sudo_check_match_no_return(c, check_res) == [c EXCEPT !.pc = "lookup"]

\* `if let CheckResult::Allow(_) = check_res`
sudo_check_match(c, check_res) ==
    IF check_res.tag = "Allow"
    THEN Return(c, Allow(c.cur_access))
    ELSE [c EXCEPT !.pc = "lookup"]

\* loop body, second part: the "$ACL.Sudo" child of cur_prefix
SudoStep(c) ==
    LET found == get_item(c.cur_item, SPECIAL_SEGMENT_SUDO) IN
    IF found = None THEN [c EXCEPT !.pc = "lookup"]
    ELSE LET obj == as_object(found[1]) IN
         IF obj = None THEN Return(c, Panic("unwrap"))
         ELSE LET check_res == check(obj[1].security, c.token,
                                     sudo_requested_access(c))
              IN  sudo_check_match(
                      Logged(c, "sudo", sudo_requested_access(c), check_res),
                      check_res)

\* a mutation of LookupStep: an absent segment is reported as NoMatch
LookupStepNoMatch(c) ==
    LET found == get_item(c.cur_item, c.path[c.seg])
        c1 == Logged(c, "lookup", c.cur_access,
                     IF found = None THEN NotFound ELSE Pending)
    IN  IF found = None THEN Return(c1, NoMatch)
        ELSE [c1 EXCEPT !.cur_item = found[1], !.seg = c.seg + 1, !.pc = "loop"]

\* loop body, last part: the child named by the segment
LookupStep(c) ==
    LET found == get_item(c.cur_item, c.path[c.seg])
        c1 == Logged(c, "lookup", c.cur_access,
                     IF found = None THEN NotFound ELSE Pending)
    IN  IF found = None THEN Return(c1, NotFound)
        ELSE [c1 EXCEPT !.cur_item = found[1], !.seg = c.seg + 1, !.pc = "loop"]

\* after the loop: the item the path resolved to
TerminalStep(c) ==
    IF c.cur_item.kind = "Prefix" THEN Return(c, NotFound)
    ELSE LET check_res == check(c.cur_item.security, c.token, c.cur_access)
         IN  Return(Logged(c, "object", c.cur_access, check_res), check_res)

WalkStep(c) ==
    CASE c.pc = "loop" /\ c.seg <= Len(c.path) -> SelfCheckStep(c)
      [] c.pc = "loop" /\ c.seg > Len(c.path) -> TerminalStep(c)
      [] c.pc = "sudo" -> SudoStep(c)
      [] c.pc = "lookup" -> LookupStep(c)

RECURSIVE Walk(_)
Walk(c) == IF c.pc = "done" THEN c ELSE Walk(WalkStep(c))

\* access() as a function of its arguments
access(r, token, path, requested_access) ==
    Walk(Enter(r, token, path, requested_access)).result

(***************************************************************************)
(* Inputs                                                                  *)
(***************************************************************************)
joe_admin == AccessToken("joe", <<"admin", "jojo-fan">>)
jon_snow == AccessToken("jon_snow", <<>>)
cersei == AccessToken("cersei", <<>>)

Tokens == {joe_admin, jon_snow, cersei}

RequestedMasks == {Bits(255), Bits(5)}

Subjects == {User("jon_snow"), Group("admin"), Everyone}

Effects ==
    {EffectAllow(None), EffectAllow(Some(Bits(6))), EffectDeny,
     EffectNext(None), EffectNext(Some(Bits(3)))}

Entries == {Entry(s, e) : s \in Subjects, e \in Effects}

\* the object descriptor of tests::access_crop
admin_step_6 ==
    add_entry(add_entry(empty, Entry(Group("admin"), EffectAllow(Some(Bits(6))))),
              Entry(Everyone, EffectDeny))

\* the sudo descriptor of tests::sudo_mode
sudo_object_security ==
    SecurityDescriptor(<<Entry(User("jon_snow"), EffectAllow(Some(Bits(0))))>>)

\* a Next entry that tightens the mask before a later Allow
next_then_admin ==
    add_entry(add_entry(empty, Entry(Everyone, EffectNext(Some(Bits(3))))),
              Entry(Group("admin"), EffectAllow(None)))

Descriptors ==
    {allow_all, deny_all, with_capped_access(Bits(5)),
     admin_step_6, sudo_object_security, next_then_admin}

PathNames == {"top-secret", SPECIAL_SEGMENT_SUDO}

Paths == UNION {[1 .. n -> PathNames] : n \in 0 .. MaxPathLen}

\* with_security(sec) followed by add_item for each optional child
SubPrefix(sec, child, sudo) ==
    LET p0 == with_security(sec)
        p1 == IF child = None THEN p0 ELSE add_item(p0, "top-secret", child[1])
    IN  IF sudo = None THEN p1 ELSE add_item(p1, SPECIAL_SEGMENT_SUDO, sudo[1])

SubPrefixes ==
    {SubPrefix(sec, child, sudo) :
        sec \in {with_capped_access(Bits(6)), admin_step_6},
        child \in {None, Some(Object(admin_step_6))},
        sudo \in {None, Some(Object(sudo_object_security))}}

Items == {Object(d) : d \in Descriptors} \cup SubPrefixes

(***************************************************************************)
(* Tree construction and calls of access()                                 *)
(***************************************************************************)
NoCheck == [token |-> AccessToken("", <<>>), requested_access |-> {}, res |-> Pending]

Init ==
    /\ root = Prefix_new
    /\ call = Idle
    /\ sd = empty
    /\ chk = NoCheck

SetSelfSecurity(sec) ==
    /\ call.pc = "idle"
    /\ root' = set_self_security(root, sec)
    /\ UNCHANGED <<call, sd, chk>>

AddItem(name, item) ==
    /\ call.pc = "idle"
    /\ root' = add_item(root, name, item)
    /\ UNCHANGED <<call, sd, chk>>

CallAccess(token, path, requested_access) ==
    /\ call.pc = "idle"
    /\ call' = Enter(root, token, path, requested_access)
    /\ UNCHANGED <<root, sd, chk>>

SelfCheck ==
    /\ call.pc = "loop"
    /\ call.seg <= Len(call.path)
    /\ call' = SelfCheckStep(call)
    /\ UNCHANGED <<root, sd, chk>>

Sudo ==
    /\ call.pc = "sudo"
    /\ call' = SudoStep(call)
    /\ UNCHANGED <<root, sd, chk>>

Lookup ==
    /\ call.pc = "lookup"
    /\ call' = LookupStep(call)
    /\ UNCHANGED <<root, sd, chk>>

Terminal ==
    /\ call.pc = "loop"
    /\ call.seg > Len(call.path)
    /\ call' = TerminalStep(call)
    /\ UNCHANGED <<root, sd, chk>>

\* the caller takes the result; the borrow of the tree ends
Finish ==
    /\ call.pc = "done"
    /\ call' = Idle
    /\ UNCHANGED <<root, sd, chk>>

Next ==
    \/ \E sec \in Descriptors : SetSelfSecurity(sec)
    \/ \E name \in PathNames, item \in Items : AddItem(name, item)
    \/ \E token \in Tokens, path \in Paths, m \in RequestedMasks :
           CallAccess(token, path, m)
    \/ SelfCheck
    \/ Sudo
    \/ Lookup
    \/ Terminal
    \/ Finish

Spec == Init /\ [][Next]_vars

(***************************************************************************)
(* Descriptor construction and calls of check()                            *)
(***************************************************************************)
NewEmpty ==
    /\ sd' = empty
    /\ chk' = NoCheck
    /\ UNCHANGED <<root, call>>

NewAllowAll ==
    /\ sd' = allow_all
    /\ chk' = NoCheck
    /\ UNCHANGED <<root, call>>

NewDenyAll ==
    /\ sd' = deny_all
    /\ chk' = NoCheck
    /\ UNCHANGED <<root, call>>

NewCapped(max_access) ==
    /\ sd' = with_capped_access(max_access)
    /\ chk' = NoCheck
    /\ UNCHANGED <<root, call>>

AddEntry(entry) ==
    /\ Len(sd.acl) < MaxAcl
    /\ sd' = add_entry(sd, entry)
    /\ chk' = NoCheck
    /\ UNCHANGED <<root, call>>

Check(token, requested_access) ==
    /\ chk' = [token |-> token, requested_access |-> requested_access,
               res |-> check(sd, token, requested_access)]
    /\ UNCHANGED <<root, call, sd>>

NextCheck ==
    \/ NewEmpty
    \/ NewAllowAll
    \/ NewDenyAll
    \/ \E m \in RequestedMasks : NewCapped(m)
    \/ \E entry \in Entries : AddEntry(entry)
    \/ \E token \in Tokens, m \in RequestedMasks : Check(token, m)

SpecCheck == Init /\ [][NextCheck]_vars

TypeOK ==
    /\ root.kind = "Prefix"
    /\ call.pc \in {"idle", "loop", "sudo", "lookup", "done"}
    /\ call.result.tag \in {"Pending", "Allow", "Deny", "NoMatch", "NotFound", "Panic"}
    /\ Len(sd.acl) <= MaxAcl

(***************************************************************************)
(* Vocabulary of the properties: what a descriptor decides for a token,    *)
(* and what lies along the path of the call, read off the tree             *)
(***************************************************************************)
Covered(subject, token) ==
    \/ subject.kind = "Everyone"
    \/ subject.kind = "User" /\ subject.name = token.name
    \/ subject.kind = "Group"
         /\ subject.name \in {token.groups[k] : k \in DOMAIN token.groups}

\* index of the first covering entry that is not a Next, 0 if there is none
FirstDeciding(acl, token) ==
    LET S == {k \in DOMAIN acl :
                 Covered(acl[k].subject, token) /\ acl[k].effect.kind # "Next"}
    IN  IF S = {} THEN 0 ELSE CHOOSE k \in S : \A j \in S : k <= j

Outcome(d, token) ==
    LET fd == FirstDeciding(d.acl, token)
    IN  IF fd = 0 THEN "NoMatch" ELSE d.acl[fd].effect.kind

\* intersection of the steps of the covering entries up to the deciding one
Narrowing(d, token) ==
    LET fd == FirstDeciding(d.acl, token)
    IN  {b \in max_value :
            \A k \in 1 .. fd :
                (/\ Covered(d.acl[k].subject, token)
                 /\ d.acl[k].effect.kind # "Deny"
                 /\ d.acl[k].effect.next # None)
                    => b \in d.acl[k].effect.next[1]}

\* the item reached before segment d of the path is consumed (root for d = 1)
RECURSIVE NodeAt(_, _, _)
NodeAt(r, path, d) ==
    IF d = 1 THEN Some(r)
    ELSE LET up == NodeAt(r, path, d - 1)
         IN  IF up = None \/ up[1].kind # "Prefix" THEN None
             ELSE IF path[d - 1] \in DOMAIN up[1].items
                  THEN Some(up[1].items[path[d - 1]])
                  ELSE None

IsPrefixAt(d) ==
    LET n == NodeAt(root, call.path, d) IN n # None /\ n[1].kind = "Prefix"

IsObjectAt(d) ==
    LET n == NodeAt(root, call.path, d) IN n # None /\ n[1].kind = "Object"

PrefixAt(d) == NodeAt(root, call.path, d)[1]

SelfOutcome(d) == Outcome(PrefixAt(d).self_security, call.token)

HasSudo(d) == SPECIAL_SEGMENT_SUDO \in DOMAIN PrefixAt(d).items

SudoItem(d) == PrefixAt(d).items[SPECIAL_SEGMENT_SUDO]

SudoGrants(d) ==
    /\ HasSudo(d)
    /\ SudoItem(d).kind = "Object"
    /\ Outcome(SudoItem(d).security, call.token) = "Allow"

\* a sudo object that is there but does not grant
SudoRefuses(d) ==
    /\ HasSudo(d)
    /\ SudoItem(d).kind = "Object"
    /\ Outcome(SudoItem(d).security, call.token) # "Allow"

SudoSilent(d) == ~HasSudo(d) \/ SudoRefuses(d)

\* the walk passes both checks of each of the prefixes at depths 1 .. d
CleanUpTo(d) ==
    \A j \in 1 .. d : IsPrefixAt(j) /\ SelfOutcome(j) = "Allow" /\ SudoSilent(j)

\* intersection of the narrowings of the prefixes at depths 1 .. d
RECURSIVE PrefixNarrowing(_)
PrefixNarrowing(d) ==
    IF d = 0 THEN max_value
    ELSE PrefixNarrowing(d - 1)
            \cap Narrowing(PrefixAt(d).self_security, call.token)

AbsentAt(d) == IsPrefixAt(d) /\ call.path[d] \notin DOMAIN PrefixAt(d).items

EndsOnPrefix == IsPrefixAt(Len(call.path) + 1)

Done == call.pc = "done"

LastEvent == call.log[Len(call.log)]

RECURSIVE StripSudo(_)
StripSudo(item) ==
    IF item.kind = "Object" THEN item
    ELSE [item EXCEPT !.items =
            [n \in (DOMAIN item.items) \ {SPECIAL_SEGMENT_SUDO} |->
                StripSudo(item.items[n])]]

RECURSIVE NoSudoPrefix(_)
NoSudoPrefix(item) ==
    \/ item.kind = "Object"
    \/ /\ \A n \in DOMAIN item.items : NoSudoPrefix(item.items[n])
       /\ SPECIAL_SEGMENT_SUDO \in DOMAIN item.items
              => item.items[SPECIAL_SEGMENT_SUDO].kind = "Object"

SudoGrantedIn(c) ==
    \E k \in DOMAIN c.log : c.log[k].ev = "sudo" /\ c.log[k].res = "Allow"

(***************************************************************************)
(* The trees of the unit tests                                             *)
(***************************************************************************)
bob_hacker == AccessToken("bob", <<"jojo-fan">>)

\* tests::simple
simple_root ==
    add_item(Prefix_new, "top-secret",
        Object(add_entry(add_entry(empty,
                   Entry(Group("admin"), EffectAllow(None))),
                   Entry(Everyone, EffectDeny))))

\* the tree of tests::access_crop without the root's second entry
access_crop_tree ==
    add_item(with_security(with_capped_access(Bits(5))),
             "top-secret", Object(admin_step_6))

\* tests::access_crop
access_crop_root ==
    add_item(
        [with_security(with_capped_access(Bits(5))) EXCEPT
            !.self_security = add_entry(@, Entry(Everyone, EffectAllow(None)))],
        "top-secret", Object(admin_step_6))

\* tests::sudo_mode
sudo_mode_root ==
    add_item(add_item(Prefix_new, SPECIAL_SEGMENT_SUDO, Object(sudo_object_security)),
             "GotFinal", Object(deny_all))

\* the assertions of the unit tests
UnitTests ==
    /\ access(simple_root, joe_admin, <<"top-secret">>, Bits(0)) = Allow(Bits(0))
    /\ access(simple_root, bob_hacker, <<"top-secret">>, Bits(0)) = Deny
    /\ access(access_crop_root, joe_admin, <<"top-secret">>, Bits(255)) = Allow(Bits(4))
    /\ access(sudo_mode_root, jon_snow, <<"GotFinal">>, Bits(179)) = Allow(Bits(179))
    /\ access(sudo_mode_root, cersei, <<"GotFinal">>, Bits(179)) = Deny

(***************************************************************************)
(* Properties                                                              *)
(***************************************************************************)

\* C1: the running mask cur_access is at every point of the walk a subset
\* of the requested mask, and a returned Allow(m) has m & requested = m,
\* also when the result comes from the sudo shortcut.
C1_GrantedWithinRequested ==
    call.pc # "idle" =>
        /\ call.cur_access \subseteq call.requested_access
        /\ call.result.tag = "Allow" =>
              /\ call.result.acc \subseteq call.requested_access
              /\ call.result.acc \cap call.requested_access = call.result.acc

C1_Witness ==
    /\ Done
    /\ call.result.tag = "Allow"
    /\ call.log # <<>> /\ LastEvent.ev = "sudo"
    /\ call.result.acc # call.requested_access
    /\ call.result.acc # {}

\* C2: if the prefixes before depth d let the walk pass, the prefix at depth
\* d allows the token and its "$ACL.Sudo" child is an Object whose
\* descriptor allows the token, then access() returns Allow of the requested
\* mask narrowed by the prefixes at depths 1..d, and nothing beyond that
\* prefix's sudo item is looked up or evaluated.
C2_SudoEscalation ==
    Done =>
        \A d \in 1 .. Len(call.path) :
            (CleanUpTo(d - 1) /\ IsPrefixAt(d) /\ SelfOutcome(d) = "Allow"
                 /\ SudoGrants(d))
            => /\ call.result = Allow(call.requested_access \cap PrefixNarrowing(d))
               /\ LastEvent.ev = "sudo" /\ LastEvent.depth = d
               /\ \A k \in DOMAIN call.log :
                     /\ call.log[k].depth <= d
                     /\ call.log[k].ev # "object"
                     /\ call.log[k].ev = "lookup" => call.log[k].depth < d

C2_Witness ==
    /\ Done
    /\ Len(call.path) = 2
    /\ CleanUpTo(0) /\ IsPrefixAt(1) /\ SelfOutcome(1) = "Allow" /\ SudoGrants(1)
    /\ IsPrefixAt(2) /\ SelfOutcome(2) = "Allow"
    /\ IsObjectAt(3) /\ Outcome(NodeAt(root, call.path, 3)[1].security, call.token) = "Deny"
    /\ call.result.tag = "Allow"
    /\ call.result.acc # call.requested_access

\* C3 as stated: an absent segment, or a path ending on a Prefix, gives
\* NotFound in all cases.
C3_NotFoundInAllCases ==
    (Done /\ ((\E d \in 1 .. Len(call.path) : AbsentAt(d)) \/ EndsOnPrefix))
        => call.result = NotFound

\* C3 amended: an absent segment, or a path ending on a Prefix, gives
\* NotFound when every prefix walked up to that point allows the token by
\* its own descriptor and has no "$ACL.Sudo" child that grants or that is a
\* Prefix; the empty path always gives NotFound.
C3_NotFoundWhenReached ==
    Done =>
        /\ \A d \in 1 .. Len(call.path) :
              (AbsentAt(d) /\ CleanUpTo(d)) => call.result = NotFound
        /\ (EndsOnPrefix /\ CleanUpTo(Len(call.path))) => call.result = NotFound
        /\ call.path = <<>> => call.result = NotFound

C3_Witness ==
    /\ Done
    /\ Len(call.path) = 2
    /\ AbsentAt(2) /\ CleanUpTo(2)
    /\ HasSudo(1) /\ HasSudo(2)
    /\ call.result = NotFound

\* C4: check is first-match-wins in stored order: when the first covering
\* entry that is not a Next is Deny the result is Deny, when it is Allow the
\* result is Allow and is the result of the list cut after that entry.
C4_FirstMatchWins ==
    chk.res # Pending =>
        LET fd == FirstDeciding(sd.acl, chk.token) IN
        fd # 0 =>
            /\ sd.acl[fd].effect.kind = "Deny" => chk.res = Deny
            /\ sd.acl[fd].effect.kind = "Allow" =>
                  /\ chk.res.tag = "Allow"
                  /\ chk.res = check(SecurityDescriptor(SubSeq(sd.acl, 1, fd)),
                                     chk.token, chk.requested_access)

C4_Witness ==
    /\ chk.res # Pending
    /\ chk.res.tag = "Allow"
    /\ \E k \in DOMAIN sd.acl :
          /\ k > FirstDeciding(sd.acl, chk.token)
          /\ Covered(sd.acl[k].subject, chk.token)
          /\ sd.acl[k].effect.kind = "Deny"
    /\ \E k \in DOMAIN sd.acl :
          /\ k < FirstDeciding(sd.acl, chk.token)
          /\ ~Covered(sd.acl[k].subject, chk.token)
          /\ sd.acl[k].effect.kind = "Deny"

\* C5: a covering Next never returns; a later covering Allow returns the
\* requested mask intersected with every preceding covering Next step and
\* with its own step (an absent step restricts nothing); without a covering
\* Allow or Deny the result is NoMatch.
C5_NextNarrowsAndContinues ==
    chk.res # Pending =>
        LET fd == FirstDeciding(sd.acl, chk.token) IN
        /\ fd = 0 => chk.res = NoMatch
        /\ (fd # 0 /\ sd.acl[fd].effect.kind = "Allow") =>
              chk.res = Allow(chk.requested_access \cap Narrowing(sd, chk.token))

C5_Witness ==
    /\ chk.res # Pending
    /\ chk.res.tag = "Allow"
    /\ FirstDeciding(sd.acl, chk.token) = 3
    /\ \A k \in 1 .. 2 :
          /\ Covered(sd.acl[k].subject, chk.token)
          /\ sd.acl[k].effect.kind = "Next"
    /\ sd.acl[1].effect.next = None
    /\ sd.acl[2].effect.next # None
    /\ sd.acl[3].effect.next # None
    /\ chk.res.acc # chk.requested_access \cap sd.acl[2].effect.next[1]
    /\ chk.res.acc # chk.requested_access \cap sd.acl[3].effect.next[1]

\* C6: when the path resolves to an Object, no sudo item grants on the way
\* and every prefix on the path and the object allow the token, the result
\* is Allow of the requested mask intersected with the narrowing of every
\* traversed prefix and of the object; requested 255 under a root capped to
\* 5 and an object step of 6 gives Allow(4).
C6_ExactNarrowing ==
    /\ (Done /\ CleanUpTo(Len(call.path)) /\ IsObjectAt(Len(call.path) + 1)
          /\ Outcome(PrefixAt(Len(call.path) + 1).security, call.token) = "Allow")
       => call.result =
             Allow(call.requested_access
                     \cap PrefixNarrowing(Len(call.path))
                     \cap Narrowing(PrefixAt(Len(call.path) + 1).security, call.token))
    /\ (Done /\ root = access_crop_tree /\ call.token = joe_admin
          /\ call.path = <<"top-secret">> /\ call.requested_access = Bits(255))
       => call.result = Allow(Bits(4))

C6_Witness ==
    /\ Done
    /\ Len(call.path) = 2
    /\ CleanUpTo(2) /\ IsObjectAt(3)
    /\ call.requested_access = Bits(255)
    /\ Narrowing(PrefixAt(1).self_security, call.token) = Bits(5)
    /\ Narrowing(PrefixAt(3).security, call.token) = Bits(6)
    /\ call.result = Allow(Bits(4))

\* C7: a sudo item that does not grant is transparent: when the path does
\* not name "$ACL.Sudo" and at every prefix whose descriptor the walk
\* evaluated the sudo item is absent or an Object that yields Deny or
\* NoMatch, the result is that of the same call on the tree without its
\* sudo items.
C7_RefusingSudoIsTransparent ==
    (/\ Done
     /\ \A k \in DOMAIN call.path : call.path[k] # SPECIAL_SEGMENT_SUDO
     /\ \A k \in DOMAIN call.log :
            call.log[k].ev = "self" => SudoSilent(call.log[k].depth))
    => call.result =
          access(StripSudo(root), call.token, call.path, call.requested_access)

C7_Witness ==
    /\ Done
    /\ Len(call.path) = 2
    /\ \A k \in DOMAIN call.path : call.path[k] # SPECIAL_SEGMENT_SUDO
    /\ CleanUpTo(2)
    /\ SudoRefuses(1) /\ Outcome(SudoItem(1).security, call.token) = "Deny"
    /\ SudoRefuses(2) /\ Outcome(SudoItem(2).security, call.token) = "NoMatch"
    /\ call.result.tag = "Allow"

\* C8: access() ends with one of the four CheckResult variants or with the
\* panic of the unwrap on a "$ACL.Sudo" child that is a Prefix: no
\* descriptor evaluation reports NotFound, unreachable!() is never taken,
\* and on a tree in which no prefix binds "$ACL.Sudo" to a Prefix there is
\* no panic at all.
C8_NoPanicButSudoPrefix ==
    /\ \A k \in DOMAIN call.log :
          call.log[k].ev \in {"self", "sudo", "object"}
              => call.log[k].res \in {"Allow", "Deny", "NoMatch"}
    /\ Done =>
          /\ call.result.tag \in {"Allow", "Deny", "NoMatch", "NotFound", "Panic"}
          /\ call.result.tag = "Panic" =>
                /\ call.result.why = "unwrap"
                /\ IsPrefixAt(call.seg) /\ HasSudo(call.seg)
                /\ SudoItem(call.seg).kind = "Prefix"
          /\ NoSudoPrefix(root) =>
                call.result.tag \in {"Allow", "Deny", "NoMatch", "NotFound"}

C8_Witness ==
    /\ Done
    /\ NoSudoPrefix(root)
    /\ Len(call.path) = 2
    /\ IsPrefixAt(1) /\ HasSudo(1)
    /\ IsPrefixAt(2) /\ HasSudo(2)
    /\ \E k \in DOMAIN call.log : call.log[k].ev = "sudo" /\ call.log[k].depth = 2
    /\ call.result = NoMatch

\* C9: the prefix's own descriptor is evaluated before its sudo item and
\* before the child lookup: when the walk reaches a prefix whose own
\* descriptor yields Deny or NoMatch, that is the result, and neither the
\* prefix's sudo item is evaluated nor the segment looked up; a sudo item is
\* only ever evaluated after its prefix and all ancestors allowed.
C9_FailClosedOrder ==
    /\ \A k \in DOMAIN call.log :
          call.log[k].ev \in {"sudo", "lookup"} =>
              /\ k > 1
              /\ \E j \in 1 .. (k - 1) :
                    /\ call.log[j].ev = "self"
                    /\ call.log[j].depth = call.log[k].depth
                    /\ call.log[j].res = "Allow"
              /\ \A j \in 1 .. (k - 1) :
                    call.log[j].ev = "self" => call.log[j].res = "Allow"
    /\ Done =>
          \A d \in 1 .. Len(call.path) :
              (CleanUpTo(d - 1) /\ IsPrefixAt(d)
                   /\ SelfOutcome(d) \in {"Deny", "NoMatch"})
              => /\ call.result.tag = SelfOutcome(d)
                 /\ LastEvent.ev = "self" /\ LastEvent.depth = d

C9_Witness ==
    /\ Done
    /\ Len(call.path) = 2
    /\ CleanUpTo(1) /\ IsPrefixAt(2)
    /\ SelfOutcome(2) = "Deny"
    /\ SudoGrants(2)
    /\ AbsentAt(2)
    /\ call.result = Deny

\* C10 as stated: the sudo object's descriptor is evaluated with an
\* unrestricted mask, and whether sudo is granted does not depend on the
\* requested mask.
C10_SudoMaskUnrestricted ==
    /\ \A k \in DOMAIN call.log :
          call.log[k].ev = "sudo" => call.log[k].mask = max_value
    /\ Done =>
          \A m \in RequestedMasks \cup {Bits(0), max_value} :
              SudoGrantedIn(Walk(Enter(root, call.token, call.path, m)))
                  = SudoGrantedIn(call)

\* C10 amended: the sudo object's descriptor is evaluated with the fresh
\* constant mask 0, never with the narrowed current mask, and whether sudo
\* is granted does not depend on the requested mask.
C10_SudoMaskFresh ==
    /\ \A k \in DOMAIN call.log :
          call.log[k].ev = "sudo" => call.log[k].mask = Bits(0)
    /\ Done =>
          \A m \in RequestedMasks \cup {Bits(0), max_value} :
              SudoGrantedIn(Walk(Enter(root, call.token, call.path, m)))
                  = SudoGrantedIn(call)

C10_Witness ==
    /\ Done
    /\ Len(call.path) = 2
    /\ LastEvent.ev = "sudo" /\ LastEvent.depth = 2 /\ LastEvent.res = "Allow"
    /\ call.result.tag = "Allow"
    /\ call.result.acc \notin {Bits(0), call.requested_access}

====
